---------------------------- MODULE Spec2Model ----------------------------
(***************************************************************************)
(* Locale resolution, dictionary selection and language redirect of        *)
(* lib/lang.js.  The repository holds two revisions of the module:         *)
(*   src/lib/lang.js       the path-only revision                          *)
(*   src/unnamed/part_000  the revision that also reads the query string,  *)
(*                         the persisted preference and navigator.language *)
(* generateLocaleDict is the same text in both.  The variable `revision`   *)
(* says which of the two is loaded; it never changes.                      *)
(*                                                                         *)
(* JavaScript strings are TLA+ strings, handled character by character     *)
(* (Len, SubSeq, \o), so split, toLowerCase, toUpperCase, startsWith and   *)
(* the regular expression of initLocale are computed, not assumed.         *)
(***************************************************************************)
EXTENDS Integers, Sequences, FiniteSets, TLC

VARIABLES
  revision,     \* which revision of lib/lang.js is loaded
  isBrowser,    \* '@/lib/utils' isBrowser
  pathname,     \* window.location.pathname
  query,        \* the parsed query string of window.location
  storedLang,   \* localStorage['lang']
  browserLang,  \* window.navigator.language
  pageId,       \* the site-identifier list handed to redirectUserLang
  last,         \* the last call: its function, argument, pre-state, result, effects
  chain         \* history: the states in which redirectUserLang navigated, in order

vars ==
  <<revision, isBrowser, pathname, query, storedLang, browserLang, pageId, last, chain>>

(***************************************************************************)
(* JavaScript values                                                       *)
(***************************************************************************)
\* null and undefined: values no string of the model equals.
null == "<null>"
undefined == "<undefined>"

\* Boolean(v) on the value kinds used here (strings, null, undefined).
Truthy(v) == v # null /\ v # undefined /\ v # ""

\* a || b
Or(a, b) == IF Truthy(a) THEN a ELSE b

\* `${v}` inside a template literal
Str(v) == IF v = undefined THEN "undefined" ELSE IF v = null THEN "null" ELSE v

LowerChars == "abcdefghijklmnopqrstuvwxyz"
UpperChars == "ABCDEFGHIJKLMNOPQRSTUVWXYZ"

CharAt(s, i) == SubSeq(s, i, i)

Letters == {CharAt(LowerChars, i) : i \in 1..26} \cup {CharAt(UpperChars, i) : i \in 1..26}

IsLetter(c) == c \in Letters

\* The lower-case and upper-case form of each letter.
lowerOf == [c \in Letters |->
             LET i == CHOOSE i \in 1..26 : c \in {CharAt(LowerChars, i), CharAt(UpperChars, i)}
             IN CharAt(LowerChars, i)]
upperOf == [c \in Letters |->
             LET i == CHOOSE i \in 1..26 : c \in {CharAt(LowerChars, i), CharAt(UpperChars, i)}
             IN CharAt(UpperChars, i)]

\* String.prototype.toLowerCase / toUpperCase (ASCII): letters change case,
\* every other character stays.
RECURSIVE toLowerCase(_)
toLowerCase(s) ==
  IF s = "" THEN ""
  ELSE (IF IsLetter(CharAt(s, 1)) THEN lowerOf[CharAt(s, 1)] ELSE CharAt(s, 1))
       \o toLowerCase(Tail(s))

RECURSIVE toUpperCase(_)
toUpperCase(s) ==
  IF s = "" THEN ""
  ELSE (IF IsLetter(CharAt(s, 1)) THEN upperOf[CharAt(s, 1)] ELSE CharAt(s, 1))
       \o toUpperCase(Tail(s))

\* String.prototype.startsWith
startsWith(s, prefix) ==
  Len(prefix) <= Len(s) /\ SubSeq(s, 1, Len(prefix)) = prefix

\* String.prototype.includes for a one-character needle
includesChar(s, c) == \E i \in 1..Len(s) : CharAt(s, i) = c

\* Array.prototype.includes
includes(arr, x) == \E i \in 1..Len(arr) : arr[i] = x

\* String.prototype.split on any one character of `seps`: the pieces between
\* separators, empty pieces kept ("/".split("/") is ["", ""]).
RECURSIVE SplitFrom(_, _, _)
SplitFrom(s, seps, acc) ==
  IF s = "" THEN <<acc>>
  ELSE IF CharAt(s, 1) \in seps
       THEN <<acc>> \o SplitFrom(Tail(s), seps, "")
       ELSE SplitFrom(Tail(s), seps, acc \o CharAt(s, 1))

split(s, seps) == SplitFrom(s, seps, "")

\* arr.filter(Boolean)
filterBoolean(arr) == SelectSeq(arr, LAMBDA p : Truthy(p))

\* arr[i] of JavaScript, 0-based, undefined past the end
At(arr, i) == IF i + 1 <= Len(arr) THEN arr[i + 1] ELSE undefined


(***************************************************************************)
(* Collaborators that are not part of lib/lang.js                          *)
(***************************************************************************)
\* The translation dictionaries ./lang/*: a dictionary maps translation keys
\* to strings.  English has every key; the others translate part of them.
emptyDict == [k \in {} |-> ""]
enUS == ("LOCALE" :> "en-US") @@ ("ABOUT" :> "About")
zhCN == ("LOCALE" :> "zh-CN")
zhHK == ("LOCALE" :> "zh-HK")
zhTW == ("LOCALE" :> "zh-TW")
frFR == ("LOCALE" :> "fr-FR")
trTR == ("LOCALE" :> "tr-TR")
jaJP == ("LOCALE" :> "ja-JP")

\* '@/lib/utils' mergeDeep(target, a, b): the keys of all three, a later
\* source overriding an earlier one.
mergeDeep(target, a, b) == b @@ a @@ target

\* '@/lib/utils' getQueryVariable(key): the value of the query parameter, or
\* null when the query string has none.
getQueryVariable(q, key) == q[key]

\* './utils/pageId' extractLangPrefix(siteId): the language-prefix tag the
\* site identifier encodes, or null.  The encoding is opaque to lib/lang.js.
extractLangPrefix(siteId) ==
  CASE siteId = "site-en" -> "en"
    [] siteId = "site-zh" -> "zh"
    [] siteId = "site-FR" -> "FR"
    [] OTHER -> null

(***************************************************************************)
(* The registry                                                            *)
(***************************************************************************)
\* Object.keys(LANGS), in insertion order
supportedLocales ==
  <<"en-US", "zh-CN", "zh-HK", "zh-TW", "fr-FR", "tr-TR", "ja-JP">>

LANGS(key) ==
  CASE key = "en-US" -> enUS
    [] key = "zh-CN" -> zhCN
    [] key = "zh-HK" -> zhHK
    [] key = "zh-TW" -> zhTW
    [] key = "fr-FR" -> frFR
    [] key = "tr-TR" -> trTR
    [] key = "ja-JP" -> jaJP

(***************************************************************************)
(* generateLocaleDict (the same in both revisions)                         *)
(***************************************************************************)
\* supportedLocales.filter(locale => locale.startsWith(language))
languageOnlyLocales(language) ==
  SelectSeq(supportedLocales, LAMBDA locale : startsWith(locale, language))

\* Mutant of userLocaleKey: a language-only match takes the last registered
\* key of the language instead of the first.
userLocaleKey_lastMatch(language, region) ==
  LET specificLocale == Str(language) \o "-" \o Str(region)
      only == languageOnlyLocales(language)
      fallbackLocale == languageOnlyLocales("en")[1]
  IN IF includes(supportedLocales, specificLocale) THEN specificLocale
     ELSE IF Len(only) > 0 THEN only[Len(only)]
     ELSE fallbackLocale

\* The key of LANGS that generateLocaleDict settles on for the split
\* langString: the value of `userLocale` before the merge.
userLocaleKey(language, region) ==
  LET specificLocale == Str(language) \o "-" \o Str(region)
      only == languageOnlyLocales(language)
      fallbackLocale == languageOnlyLocales("en")[1]
  IN IF includes(supportedLocales, specificLocale) THEN specificLocale
     ELSE IF Len(only) > 0 THEN only[1]
     ELSE fallbackLocale

\* [threw, key, value]: langString?.split(...) is undefined for null and
\* undefined, and destructuring undefined throws a TypeError.
generateLocaleDict(langString) ==
  IF langString \in {null, undefined}
  THEN [threw |-> TRUE, key |-> undefined, value |-> emptyDict]
  ELSE LET parts == split(langString, {"-", "_"})
           language == At(parts, 0)
           region == At(parts, 1)
           key == userLocaleKey(language, region)
       IN [threw |-> FALSE, key |-> key,
           value |-> mergeDeep(emptyDict, LANGS("en-US"), LANGS(key))]

(***************************************************************************)
(* Effects of a call, in program order                                     *)
(***************************************************************************)
GetItem == [op |-> "getItem", val |-> "lang"]
SetItem(v) == [op |-> "setItem", val |-> v]
ChangeLang(v) == [op |-> "changeLang", val |-> v]
UpdateLocale(d) == [op |-> "updateLocale", val |-> d]
Navigate(p) == [op |-> "navigate", val |-> p]

OfOp(effects, op) == SelectSeq(effects, LAMBDA e : e.op = op)

\* loadLangFromLocalStorage
loadLangFromLocalStorage(stored) == [ret |-> stored, effects |-> <<GetItem>>]

\* saveLangToLocalStorage
saveLangToLocalStorage(lang) == <<SetItem(lang)>>

\* window.location.pathname.split('/').filter(Boolean)[0]?.toLowerCase()
pathLangOf(path) ==
  LET pathSegments == filterBoolean(split(path, {"/"}))
  IN IF At(pathSegments, 0) = undefined THEN undefined
     ELSE toLowerCase(At(pathSegments, 0))

(***************************************************************************)
(* determineUserLang                                                       *)
(***************************************************************************)
\* src/lib/lang.js
determineUserLang_lib(isB, path, q, stored, blang) ==
  IF ~isB THEN [ret |-> null, effects |-> <<>>]
  ELSE [ret |-> IF pathLangOf(path) = "en" THEN "en-US" ELSE "zh-CN",
        effects |-> <<>>]

\* src/unnamed/part_000
determineUserLang_part000(isB, path, q, stored, blang) ==
  IF ~isB THEN [ret |-> null, effects |-> <<>>]
  ELSE LET pathLang == pathLangOf(path)
           queryLang == Or(getQueryVariable(q, "locale"), getQueryVariable(q, "lang"))
           load == loadLangFromLocalStorage(stored)
           storedLang_ == load.ret
           browserIsZh == IF blang = undefined THEN FALSE ELSE startsWith(blang, "zh")
       IN [ret |-> IF pathLang = "en" THEN "en-US"
                   ELSE IF Truthy(pathLang) THEN pathLang \o "-" \o toUpperCase(pathLang)
                   ELSE IF Truthy(queryLang) THEN queryLang
                   ELSE IF Truthy(storedLang_) THEN storedLang_
                   ELSE IF browserIsZh THEN "zh-CN" ELSE "en-US",
           effects |-> load.effects]

determineUserLang(rev, isB, path, q, stored, blang) ==
  IF rev = "lib" THEN determineUserLang_lib(isB, path, q, stored, blang)
  ELSE determineUserLang_part000(isB, path, q, stored, blang)

(***************************************************************************)
(* initLocale                                                              *)
(***************************************************************************)
\* userLang.match(/[a-zA-Z]{2}(?:-[a-zA-Z]{2})?/): the leftmost two letters,
\* with a following "-" and two letters when they are there; null when the
\* string has no two adjacent letters.  (match[0] of the code.)
matchLangCode(s) ==
  LET starts == {i \in 1..(Len(s) - 1) :
                   IsLetter(CharAt(s, i)) /\ IsLetter(CharAt(s, i + 1))}
  IN IF starts = {} THEN null
     ELSE LET i == CHOOSE i \in starts : \A j \in starts : i <= j
              region == /\ i + 4 <= Len(s)
                        /\ CharAt(s, i + 2) = "-"
                        /\ IsLetter(CharAt(s, i + 3))
                        /\ IsLetter(CharAt(s, i + 4))
          IN SubSeq(s, i, IF region THEN i + 4 ELSE i + 1)

\* src/lib/lang.js
initLocale_lib(isB, path, q, stored, blang) ==
  IF ~isB THEN <<>>
  ELSE LET d == determineUserLang_lib(isB, path, q, stored, blang)
           userLang == d.ret
       IN IF ~Truthy(userLang) THEN d.effects
          ELSE d.effects
               \o <<ChangeLang(userLang)>>
               \o <<UpdateLocale(generateLocaleDict(userLang).value)>>

\* src/unnamed/part_000
initLocale_part000(isB, path, q, stored, blang) ==
  IF ~isB THEN <<>>
  ELSE LET d == determineUserLang_part000(isB, path, q, stored, blang)
           userLang == d.ret
       IN IF ~Truthy(userLang) THEN d.effects
          ELSE LET targetLang == matchLangCode(userLang)
               IN IF targetLang = null THEN d.effects
                  ELSE d.effects
                       \o <<ChangeLang(targetLang)>>
                       \o <<UpdateLocale(generateLocaleDict(targetLang).value)>>
                       \o saveLangToLocalStorage(targetLang)

\* The effects of initLocale(locale, changeLang, updateLocale), in order.
initLocale(rev, isB, path, q, stored, blang) ==
  IF rev = "lib" THEN initLocale_lib(isB, path, q, stored, blang)
  ELSE initLocale_part000(isB, path, q, stored, blang)

(***************************************************************************)
(* redirectUserLang                                                        *)
(***************************************************************************)
\* Mutant of notMultiLang: only a missing list counts as single-language.
notMultiLang_noCommaCheck(pid) == ~Truthy(pid)

\* !pageId?.includes(',')
notMultiLang(pid) == ~(Truthy(pid) /\ includesChar(pid, ","))

\* src/lib/lang.js, the for loop from entry i (1-based) on
RECURSIVE redirectLoop_lib(_, _, _)
redirectLoop_lib(siteIds, i, currentPath) ==
  IF i > Len(siteIds) THEN <<>>
  ELSE LET prefix == extractLangPrefix(siteIds[i])
           pathLang == pathLangOf(currentPath)
       IN IF ~Truthy(prefix) THEN redirectLoop_lib(siteIds, i + 1, currentPath)
          ELSE LET prefixLang == toLowerCase(prefix)
               IN IF \/ (prefixLang = "en" /\ pathLang # "en")
                     \/ (prefixLang = "zh" /\ currentPath # "/")
                  THEN <<Navigate(IF prefixLang = "zh" THEN "/" ELSE "/en")>>
                  ELSE redirectLoop_lib(siteIds, i + 1, currentPath)

\* Mutant of redirectUserLang_lib: the isBrowser check is missing.
redirectUserLang_lib_noBrowserCheck(pid, isB, path, q, stored, blang) ==
  IF notMultiLang(pid) THEN <<>>
  ELSE redirectLoop_lib(split(pid, {","}), 1, path)

redirectUserLang_lib(pid, isB, path, q, stored, blang) ==
  IF ~isB THEN <<>>
  ELSE IF notMultiLang(pid) THEN <<>>
  ELSE redirectLoop_lib(split(pid, {","}), 1, path)

\* src/unnamed/part_000, the for loop from entry i (1-based) on
RECURSIVE redirectLoop_part000(_, _, _, _)
redirectLoop_part000(siteIds, i, userLangBase, currentPath) ==
  IF i > Len(siteIds) THEN <<>>
  ELSE LET prefix == extractLangPrefix(siteIds[i])
       IN IF ~Truthy(prefix)
          THEN redirectLoop_part000(siteIds, i + 1, userLangBase, currentPath)
          ELSE LET prefixLang == toLowerCase(prefix)
                   targetPath == IF prefixLang = "zh" THEN "/" ELSE "/" \o prefixLang
               IN IF userLangBase = prefixLang
                  THEN IF currentPath # targetPath THEN <<Navigate(targetPath)>> ELSE <<>>
                  ELSE redirectLoop_part000(siteIds, i + 1, userLangBase, currentPath)

redirectUserLang_part000(pid, isB, path, q, stored, blang) ==
  IF ~isB THEN <<>>
  ELSE IF notMultiLang(pid) THEN <<>>
  ELSE LET d == determineUserLang_part000(isB, path, q, stored, blang)
           userLang == d.ret
       IN IF ~Truthy(userLang) THEN d.effects
          ELSE LET userLangBase == At(split(toLowerCase(userLang), {"-", "_"}), 0)
               IN d.effects
                  \o redirectLoop_part000(split(pid, {","}), 1, userLangBase, path)

\* The effects of redirectUserLang(pageId), in order.
redirectUserLang(rev, pid, isB, path, q, stored, blang) ==
  IF rev = "lib" THEN redirectUserLang_lib(pid, isB, path, q, stored, blang)
  ELSE redirectUserLang_part000(pid, isB, path, q, stored, blang)

(***************************************************************************)
(* The environment the calls act on                                        *)
(***************************************************************************)
noQuery == [locale |-> null, lang |-> null]

\* localStorage['lang'] after the effects: the last setItem wins.
storedAfter(stored, effects) ==
  LET sets == OfOp(effects, "setItem")
  IN IF Len(sets) = 0 THEN stored ELSE sets[Len(sets)].val

\* window.location after the effects: assigning location.href loads the
\* target path, which carries no query string.
pathAfter(path, effects) ==
  LET navs == OfOp(effects, "navigate")
  IN IF Len(navs) = 0 THEN path ELSE navs[Len(navs)].val

queryAfter(q, effects) ==
  IF Len(OfOp(effects, "navigate")) = 0 THEN q ELSE noQuery

Revisions == {"lib", "part_000"}

Paths == {"/", "/en", "/EN/anything", "/fr", "/zh", "/about"}

Queries ==
  { noQuery,
    [locale |-> "", lang |-> "fr_FR"],
    [locale |-> "x", lang |-> null] }

StoredLangs == {null, "", "fr-FR", "zh-CN"}

BrowserLangs == {undefined, "zh-TW"}

\* Site identifiers: one without a language prefix, and en-, zh- and
\* FR-prefixed ones.
SiteIds == {"site", "site-en", "site-zh", "site-FR"}

\* The longest site-identifier list of the model, in entries.
MaxEntries == 2

\* ids.join(',')
RECURSIVE JoinIds(_)
JoinIds(ids) ==
  IF Len(ids) = 1 THEN ids[1] ELSE ids[1] \o "," \o JoinIds(Tail(ids))

\* No list, and every list of 1..MaxEntries site identifiers.
PageIds ==
  {null} \cup {JoinIds(ids) : ids \in UNION {[1..n -> SiteIds] : n \in 1..MaxEntries}}

LangStrings ==
  { null, undefined, "", "en-US", "zh-CN", "zh-HK", "zh_TW", "zh-XX", "zh_XX",
    "zh", "fr-CA", "tr", "ja_XX", "xx-XX", "xx", "z-XX", "ZH-CN" }

pre == [pathname |-> pathname, query |-> query, storedLang |-> storedLang]

noCall ==
  [fn |-> "none", arg |-> null, pre |-> pre, threw |-> FALSE,
   ret |-> undefined, effects |-> <<>>]

Init ==
  /\ revision \in Revisions
  /\ isBrowser \in BOOLEAN
  /\ pathname \in Paths
  /\ query \in Queries
  /\ storedLang \in StoredLangs
  /\ browserLang \in BrowserLangs
  /\ pageId \in PageIds
  /\ last = noCall
  /\ chain = <<>>

\* No state occurs twice in the history.
NoRepeat(h) == \A i, j \in 1..Len(h) : h[i] = h[j] => i = j

\* What every call does to the environment, given its effects.
Apply(effects) ==
  /\ storedLang' = storedAfter(storedLang, effects)
  /\ pathname' = pathAfter(pathname, effects)
  /\ query' = queryAfter(query, effects)
  /\ UNCHANGED <<revision, isBrowser, browserLang, pageId>>

CallGenerateLocaleDict ==
  \E langString \in LangStrings :
    LET r == generateLocaleDict(langString)
    IN /\ last' = [fn |-> "generateLocaleDict", arg |-> langString, pre |-> pre,
                   threw |-> r.threw, ret |-> r.value, effects |-> <<>>]
       /\ Apply(<<>>)
       /\ UNCHANGED chain

CallDetermineUserLang ==
  LET r == determineUserLang(revision, isBrowser, pathname, query, storedLang, browserLang)
  IN /\ last' = [fn |-> "determineUserLang", arg |-> null, pre |-> pre,
                 threw |-> FALSE, ret |-> r.ret, effects |-> r.effects]
     /\ Apply(r.effects)
     /\ UNCHANGED chain

CallInitLocale ==
  LET e == initLocale(revision, isBrowser, pathname, query, storedLang, browserLang)
  IN /\ last' = [fn |-> "initLocale", arg |-> null, pre |-> pre,
                 threw |-> FALSE, ret |-> undefined, effects |-> e]
     /\ Apply(e)
     /\ UNCHANGED chain

CallRedirectUserLang ==
  LET e == redirectUserLang(revision, pageId, isBrowser, pathname, query,
                            storedLang, browserLang)
  IN /\ last' = [fn |-> "redirectUserLang", arg |-> pageId, pre |-> pre,
                 threw |-> FALSE, ret |-> undefined, effects |-> e]
     /\ Apply(e)
     /\ chain' = IF Len(OfOp(e, "navigate")) > 0 /\ NoRepeat(chain)
                 THEN Append(chain, pre) ELSE chain

Next ==
  \/ CallDetermineUserLang
  \/ CallInitLocale
  \/ CallRedirectUserLang

\* The three functions that act on the environment, called in any order.
Spec == Init /\ [][Next]_vars

\* generateLocaleDict reads nothing but its argument: its calls, over every
\* input of LangStrings.
DictInit == Init /\ query = noQuery /\ storedLang = null /\ pageId = null

DictSpec == DictInit /\ [][CallGenerateLocaleDict]_vars

\* One redirectUserLang per page load, with the same list every time: a
\* navigation loads the target path, and the page loaded calls
\* redirectUserLang again.  Nothing else touches the environment.
PageLoadSpec == Init /\ [][CallRedirectUserLang]_vars

(***************************************************************************)
(* Properties                                                              *)
(***************************************************************************)
IsString(v) == v # null /\ v # undefined

\* The language component of a locale string: what precedes the first
\* hyphen or underscore.
LanguageOf(locale) == split(locale, {"-", "_"})[1]

RegisteredLanguages ==
  {LanguageOf(supportedLocales[i]) : i \in 1..Len(supportedLocales)}

\* dict merged over English: English where dict has no entry.
OverEnglish(dict) ==
  [k \in DOMAIN enUS \cup DOMAIN dict |-> IF k \in DOMAIN dict THEN dict[k] ELSE enUS[k]]

CalledDict == last.fn = "generateLocaleDict"

\* C1: generateLocaleDict(null) and generateLocaleDict(undefined) do not
\* throw and return the English dictionary.
C1_NullGivesEnglish ==
  (CalledDict /\ last.arg \in {null, undefined})
    => (~last.threw /\ last.ret = enUS)

\* C8: generateLocaleDict of a locale string whose language component is the
\* language component of no registered key returns exactly the English
\* dictionary.
C8_UnregisteredLanguageGivesEnglish ==
  (CalledDict /\ IsString(last.arg) /\ LanguageOf(last.arg) \notin RegisteredLanguages)
    => (~last.threw /\ last.ret = enUS)

\* The first registered key, in registry order, whose language component is
\* `language`.
FirstOfLanguage(language) ==
  LET is == {i \in 1..Len(supportedLocales) : LanguageOf(supportedLocales[i]) = language}
  IN supportedLocales[CHOOSE i \in is : \A j \in is : i <= j]

\* C9: generateLocaleDict of a registered language returns, merged over
\* English, the dictionary of the exact language-REGION key when that key is
\* registered, and otherwise that of the first registered key of the language
\* (zh-CN for zh): never the English-only fallback for a language other than
\* English.
C9_LanguageOnlyMatch ==
  (CalledDict /\ IsString(last.arg) /\ LanguageOf(last.arg) \in RegisteredLanguages)
    => LET parts == split(last.arg, {"-", "_"})
           exact == IF Len(parts) >= 2 THEN parts[1] \o "-" \o parts[2] ELSE ""
           chosen == IF includes(supportedLocales, exact) THEN exact
                     ELSE FirstOfLanguage(parts[1])
       IN /\ ~last.threw
          /\ last.ret = OverEnglish(LANGS(chosen))
          /\ (parts[1] # "en" => last.ret # enUS)

\* C9 witness: zh-XX has a registered language and an unregistered region,
\* and got the zh-CN dictionary.
C9_Witness ==
  CalledDict /\ last.arg = "zh-XX" /\ ~last.threw /\ last.ret["LOCALE"] = "zh-CN"

(***************************************************************************)
(* Properties of the resolver, the initializer and the redirector          *)
(***************************************************************************)
Called(fn) == last.fn = fn

\* What determineUserLang returns in the state the last call started from,
\* and in that state with the path replaced.
ResolvedAt(path) ==
  determineUserLang(revision, isBrowser, path, last.pre.query,
                    last.pre.storedLang, browserLang).ret

Resolved == ResolvedAt(last.pre.pathname)

NavigationsOf(effects) == OfOp(effects, "navigate")

\* A first path segment is a recognized locale when it is, case-insensitively,
\* a registered key or the language component of one.
Recognized(segment) ==
  \E i \in 1..Len(supportedLocales) :
    \/ segment = toLowerCase(supportedLocales[i])
    \/ segment = toLowerCase(LanguageOf(supportedLocales[i]))

\* C2: an unrecognized first path segment never becomes the locale: the
\* result is the one the same state gives with an empty path.
C2_UnrecognizedSegmentFallsThrough ==
  (/\ Called("determineUserLang") /\ isBrowser
   /\ pathLangOf(last.pre.pathname) # undefined
   /\ ~Recognized(pathLangOf(last.pre.pathname)))
    => last.ret = ResolvedAt("/")

PlatformDefault ==
  IF browserLang # undefined /\ startsWith(browserLang, "zh") THEN "zh-CN" ELSE "en-US"

\* C3: in a browser at path "/" with no locale or lang query parameter,
\* determineUserLang returns the persisted preference when one is stored and
\* the platform-language default only when none is.
C3_PersistedOutranksPlatform ==
  (/\ Called("determineUserLang") /\ isBrowser
   /\ last.pre.pathname = "/"
   /\ last.pre.query = noQuery)
    => last.ret = IF Truthy(last.pre.storedLang) THEN last.pre.storedLang
                  ELSE PlatformDefault

\* The entries of a site-identifier list, and the first whose language
\* prefix is, case-insensitively, `base` (0 when there is none).
EntriesOf(pid) == split(pid, {","})

FirstMatching(pid, base) ==
  LET es == EntriesOf(pid)
      ms == {i \in 1..Len(es) : /\ Truthy(extractLangPrefix(es[i]))
                                /\ toLowerCase(extractLangPrefix(es[i])) = base}
  IN IF ms = {} THEN 0 ELSE CHOOSE i \in ms : \A j \in ms : i <= j

CanonicalPath(prefix) ==
  IF toLowerCase(prefix) = "zh" THEN "/" ELSE "/" \o toLowerCase(prefix)

MultiEntry(pid) == IsString(pid) /\ includesChar(pid, ",")

\* C4: for a multi-entry list redirectUserLang looks only at the first entry
\* whose prefix is the base language of the resolved user language: it
\* navigates to that entry's canonical path iff the current path differs
\* from it, at most once, and not at all when no entry matches.
C4_RedirectToCanonicalPath ==
  (Called("redirectUserLang") /\ isBrowser /\ MultiEntry(last.arg))
    => LET base == LanguageOf(toLowerCase(Resolved))
           m == FirstMatching(last.arg, base)
           navs == NavigationsOf(last.effects)
       IN /\ Len(navs) <= 1
          /\ m = 0 => navs = <<>>
          /\ m # 0 =>
               LET target == CanonicalPath(extractLangPrefix(EntriesOf(last.arg)[m]))
               IN IF last.pre.pathname # target
                  THEN navs = <<Navigate(target)>> /\ pathname = target
                  ELSE navs = <<>>

\* The callbacks and the write of a call, in order (reads left out).
Outputs(effects) == SelectSeq(effects, LAMBDA e : e.op # "getItem")

\* C5: when determineUserLang yields a locale, initLocale calls changeLang
\* once with it, then updateLocale once with its dictionary, then writes it
\* to the persisted slot; when it yields nothing, none of the three happens.
C5_InitLocaleNotifiesAndPersists ==
  (Called("initLocale") /\ isBrowser)
    => IF Truthy(Resolved)
       THEN /\ Len(Outputs(last.effects)) = 3
            /\ Outputs(last.effects)[1] = ChangeLang(Resolved)
            /\ Outputs(last.effects)[2].op = "updateLocale"
            /\ Outputs(last.effects)[2].val = generateLocaleDict(Resolved).value
            /\ Outputs(last.effects)[3] = SetItem(Resolved)
            /\ storedLang = Resolved
       ELSE Outputs(last.effects) = <<>> /\ storedLang = last.pre.storedLang

\* C6: outside a browser determineUserLang returns null, and no call has any
\* effect: no callback, no navigation, no read or write of the persisted
\* preference; the URL and the persisted slot stay as they were.
C6_NoopOutsideBrowser ==
  (~isBrowser /\ ~Called("none"))
    => /\ Called("determineUserLang") => last.ret = null
       /\ last.effects = <<>>
       /\ pathname = last.pre.pathname
       /\ query = last.pre.query
       /\ storedLang = last.pre.storedLang

\* C6 witness: outside a browser, initLocale was called on a state whose
\* path names a language and which has a stored preference.
C6_Witness ==
  /\ ~isBrowser /\ Called("initLocale")
  /\ last.pre.pathname = "/fr" /\ last.pre.storedLang = "zh-CN"
  /\ last.effects = <<>>

\* C7: with a single-entry list (no comma) redirectUserLang never navigates
\* and leaves the URL unchanged.
C7_SingleEntryNeverNavigates ==
  (Called("redirectUserLang") /\ ~MultiEntry(last.arg))
    => /\ NavigationsOf(last.effects) = <<>>
       /\ pathname = last.pre.pathname
       /\ query = last.pre.query

\* C7 witness: in a browser, the single entry is en-prefixed and the path is
\* not the canonical /en; no navigation followed.
C7_Witness ==
  /\ isBrowser /\ Called("redirectUserLang") /\ last.arg = "site-en"
  /\ last.pre.pathname = "/about" /\ pathname = "/about"

\* C10: no redirect loop.  redirectUserLang decides from the path, the query,
\* the persisted preference (which page loads leave alone) and the list
\* (fixed), so the navigations of a chain of page loads are finite exactly
\* when redirectUserLang never navigates twice from the same state.
C10_NoRedirectLoop == NoRepeat(chain)

(***************************************************************************)
(* The same properties, one revision at a time (invariants of Spec, the    *)
(* last one of PageLoadSpec)                                               *)
(***************************************************************************)
\* src/lib/lang.js never turns an unrecognized path segment into a locale.
UnrecognizedSegmentFallsThrough_lib ==
  revision = "lib" => C2_UnrecognizedSegmentFallsThrough

\* src/unnamed/part_000 puts the persisted preference before the platform
\* language.
PersistedOutranksPlatform_part000 ==
  revision = "part_000" => C3_PersistedOutranksPlatform

\* src/unnamed/part_000 redirects to the canonical path of the first entry
\* that matches the resolved language, and only then.
RedirectToCanonicalPath_part000 ==
  revision = "part_000" => C4_RedirectToCanonicalPath

\* src/unnamed/part_000 notifies and persists the resolved language itself
\* when that language is a two-letter code or a code-REGION pair.
InitLocaleNotifiesAndPersists_part000 ==
  (revision = "part_000" /\ Truthy(Resolved) /\ matchLangCode(Resolved) = Resolved)
    => C5_InitLocaleNotifiesAndPersists

\* src/unnamed/part_000 never navigates twice from the same state, and a
\* chain of page loads navigates at most twice.
NoRedirectLoop_part000 ==
  revision = "part_000" => (NoRepeat(chain) /\ Len(chain) <= 2)

=============================================================================
